---- MODULE Spec2Model ----
(***************************************************************************)
(* Model of gantt.ipynb: the Task Loader (load_tasks_from_csv), the Chart  *)
(* Renderer (create_gantt_chart) and the __main__ block that drives them.  *)
(* One run is a linear sequence of statements; pc is the position of the   *)
(* run, trace the sequence of calls and prints made so far.                *)
(*                                                                         *)
(* CSV cells are texts.  Numbers are integers (the vocabulary holds no     *)
(* decimal or boolean literals); dates are day numbers since 1970-01-01.   *)
(***************************************************************************)
EXTENDS Integers, Sequences, FiniteSets, TLC

VARIABLES fs, pc, file_path, ldf, df, error, trace, chartArg, fig

vars == <<fs, pc, file_path, ldf, df, error, trace, chartArg, fig>>

\* Largest number of data rows of a CSV file.
MaxRows == 2

(***************************************************************************)
(* Texts and their readings                                                *)
(***************************************************************************)

\* The cell texts pandas.read_csv reads as a missing value by default.
NAValues ==
    {"", "#N/A", "#N/A N/A", "#NA", "-1.#IND", "-1.#QNAN", "-NaN", "-nan",
     "1.#IND", "1.#QNAN", "<NA>", "N/A", "NA", "NULL", "NaN", "None", "n/a",
     "nan", "null"}

\* The numeric literals of the vocabulary and the number each denotes.
NumLiteral ==
    ("0" :> 0) @@ ("50" :> 50) @@ ("100" :> 100) @@ ("150" :> 150) @@
    ("-5" :> -5) @@ ("007" :> 7)

\* The date literals of the vocabulary and the day each denotes.
DateLiteral ==
    ("2024-01-01" :> 19723) @@ ("2024-01-08" :> 19730) @@
    ("2024-01-15" :> 19737)

IsNA(s) == s \in NAValues

IsNumeric(s) == s \in DOMAIN NumLiteral

IsDate(s) == s \in DOMAIN DateLiteral

\* Values held by a table.
NaN == [kind |-> "nan"]

NaT == [kind |-> "nat"]

StrVal(s) == [kind |-> "str", s |-> s]

IntVal(n) == [kind |-> "int", n |-> n]

FloatVal(n) == [kind |-> "float", n |-> n]

DateVal(d) == [kind |-> "date", d |-> d]

(***************************************************************************)
(* The file system and the entry point's inputs                            *)
(***************************************************************************)

\* Paths the user may type: the CSV file, a path with no file, a file the
\* process may not read.
Paths == {"plan.csv", "missing.csv", "locked.csv"}

RequiredColumns == {"Task", "Start", "Finish", "Progress", "Description"}

NoTable == [columns |-> {}, dtypes |-> <<>>, rows |-> <<>>, none |-> TRUE]

NoFig == [bars |-> <<>>, none |-> TRUE]

NoError == [exc |-> "none", in |-> "none"]

\* Outcome of opening a path for reading.
OpenStatus(p) ==
    CASE p = "plan.csv" -> "ok"
      [] p = "missing.csv" -> "FileNotFoundError"
      [] OTHER -> "PermissionError"

(***************************************************************************)
(* pandas.read_csv                                                         *)
(***************************************************************************)

\* The cells of column c, top to bottom.
ColumnCells(rows, c) == [i \in 1..Len(rows) |-> rows[i][c]]

\* dtype inferred for a column from its cell texts.
InferDtype(cells) ==
    LET n == Len(cells)
        hasNA == \E i \in 1..n : IsNA(cells[i])
        allNum == \A i \in 1..n : IsNA(cells[i]) \/ IsNumeric(cells[i])
    IN  IF n = 0 THEN "object"
        ELSE IF allNum THEN (IF hasNA THEN "float64" ELSE "int64")
        ELSE "object"

\* Mutant: every cell is converted on its own, whatever the column holds.
ReadCellPerCell(s, dtype) ==
    IF IsNA(s) THEN NaN
    ELSE IF IsNumeric(s)
         THEN (IF dtype = "float64" THEN FloatVal(NumLiteral[s])
                                    ELSE IntVal(NumLiteral[s]))
    ELSE StrVal(s)

\* Value a cell text takes in a column of the given dtype.
ReadCell(s, dtype) ==
    IF IsNA(s) THEN NaN
    ELSE IF dtype = "int64" THEN IntVal(NumLiteral[s])
    ELSE IF dtype = "float64" THEN FloatVal(NumLiteral[s])
    ELSE StrVal(s)

\* Mutant: the first data row is taken for a second header line and dropped.
ReadCsvSkipFirst(csv) ==
    LET rest == IF Len(csv.rows) = 0 THEN <<>> ELSE Tail(csv.rows)
        dt == [c \in csv.header |-> InferDtype(ColumnCells(rest, c))]
    IN  [columns |-> csv.header,
         dtypes  |-> dt,
         rows    |-> [i \in 1..Len(rest) |->
                        [c \in csv.header |-> ReadCell(rest[i][c], dt[c])]],
         none    |-> FALSE]

\* The table read from a CSV: one record per data row, in file order.
ReadCsv(csv) ==
    LET dt == [c \in csv.header |-> InferDtype(ColumnCells(csv.rows, c))]
    IN  [columns |-> csv.header,
         dtypes  |-> dt,
         rows    |-> [i \in 1..Len(csv.rows) |->
                        [c \in csv.header |-> ReadCell(csv.rows[i][c], dt[c])]],
         none    |-> FALSE]

(***************************************************************************)
(* pandas.to_datetime and Series.astype(float)                             *)
(***************************************************************************)

Event(op, arg) == [op |-> op, arg |-> arg]

Emit(op, arg) == trace' = Append(trace, Event(op, arg))

Raised(exc, in) == [exc |-> exc, in |-> in]

\* Mutant: a missing value is rejected like an unparseable text.
BadDateOrMissing(v) == v.kind = "nan" \/ (v.kind = "str" /\ ~IsDate(v.s))

\* A value to_datetime cannot convert.
BadDate(v) == v.kind = "str" /\ ~IsDate(v.s)

\* to_datetime of one value: text is parsed, a number counts nanoseconds
\* from the epoch, a missing value becomes NaT.
ToDatetime(v) ==
    CASE v.kind = "str" -> DateVal(DateLiteral[v.s])
      [] v.kind \in {"int", "float"} -> DateVal(IF v.n >= 0 THEN 0 ELSE -1)
      [] v.kind = "date" -> v
      [] OTHER -> NaT

\* A value float() cannot convert.
BadFloat(v) == v.kind = "str" /\ ~IsNumeric(v.s)

\* Mutant: the number is clamped to 0..100.
ToFloatClamped(v) ==
    LET clamp(n) == IF n < 0 THEN 0 ELSE IF n > 100 THEN 100 ELSE n
    IN  CASE v.kind = "str" -> FloatVal(clamp(NumLiteral[v.s]))
          [] v.kind \in {"int", "float"} -> FloatVal(clamp(v.n))
          [] OTHER -> NaN

\* float(v): text is parsed, a missing value stays missing.
ToFloat(v) ==
    CASE v.kind = "str" -> FloatVal(NumLiteral[v.s])
      [] v.kind \in {"int", "float"} -> FloatVal(v.n)
      [] OTHER -> NaN

\* The column c of a table, top to bottom.
Column(t, c) == [i \in 1..Len(t.rows) |-> t.rows[i][c]]

\* df[c] = values: the column is replaced, every other column kept.
SetColumn(t, c, dtype, values) ==
    [t EXCEPT !.dtypes = [t.dtypes EXCEPT ![c] = dtype],
              !.rows = [i \in 1..Len(t.rows) |->
                          [t.rows[i] EXCEPT ![c] = values[i]]]]

\* pd.to_datetime of a column.
ToDatetimeColumn(col) == [i \in DOMAIN col |-> ToDatetime(col[i])]

\* Series.astype(float) of a column.
ToFloatColumn(col) == [i \in DOMAIN col |-> ToFloat(col[i])]

\* Mutant: a column that is absent is skipped instead of raising.
DateColumnOutcomeLenient(t, c) ==
    IF c \notin t.columns
    THEN [op |-> "getitem", error |-> NoError, table |-> t]
    ELSE IF \E i \in 1..Len(t.rows) : BadDate(t.rows[i][c])
    THEN [op |-> "to_datetime", error |-> Raised("ValueError", "to_datetime"),
          table |-> t]
    ELSE [op |-> "to_datetime", error |-> NoError,
          table |-> SetColumn(t, c, "datetime64", ToDatetimeColumn(Column(t, c)))]

\* Mutant: to_datetime(errors="coerce"), an unparseable text becomes NaT.
DateColumnOutcomeCoerce(t, c) ==
    IF c \notin t.columns
    THEN [op |-> "getitem", error |-> Raised("KeyError", "load_tasks_from_csv"),
          table |-> t]
    ELSE [op |-> "to_datetime", error |-> NoError,
          table |-> SetColumn(t, c, "datetime64",
                              [i \in 1..Len(t.rows) |->
                                 IF BadDate(t.rows[i][c]) THEN NaT
                                 ELSE ToDatetime(t.rows[i][c])])]

\* pd.to_datetime(df[c]): the event made, the error raised and the table
\* afterwards.
DateColumnOutcome(t, c) ==
    IF c \notin t.columns
    THEN [op |-> "getitem", error |-> Raised("KeyError", "load_tasks_from_csv"),
          table |-> t]
    ELSE IF \E i \in 1..Len(t.rows) : BadDate(t.rows[i][c])
    THEN [op |-> "to_datetime", error |-> Raised("ValueError", "to_datetime"),
          table |-> t]
    ELSE [op |-> "to_datetime", error |-> NoError,
          table |-> SetColumn(t, c, "datetime64", ToDatetimeColumn(Column(t, c)))]

\* df['Progress'].astype(float): the event made, the error raised and the
\* table afterwards.
FloatColumnOutcome(t, c) ==
    IF c \notin t.columns
    THEN [op |-> "getitem", error |-> Raised("KeyError", "load_tasks_from_csv"),
          table |-> t]
    ELSE IF \E i \in 1..Len(t.rows) : BadFloat(t.rows[i][c])
    THEN [op |-> "astype", error |-> Raised("ValueError", "astype"),
          table |-> t]
    ELSE [op |-> "astype", error |-> NoError,
          table |-> SetColumn(t, c, "float64", ToFloatColumn(Column(t, c)))]

\* load_tasks_from_csv as a function of the file: the error raised, or the
\* table returned.
LoadOutcome(csv) ==
    LET s == DateColumnOutcome(ReadCsv(csv), "Start")
        f == DateColumnOutcome(s.table, "Finish")
        p == FloatColumnOutcome(f.table, "Progress")
    IN  IF s.error # NoError THEN [error |-> s.error, table |-> NoTable]
        ELSE IF f.error # NoError THEN [error |-> f.error, table |-> NoTable]
        ELSE IF p.error # NoError THEN [error |-> p.error, table |-> NoTable]
        ELSE [error |-> NoError, table |-> p.table]

(***************************************************************************)
(* __main__ and load_tasks_from_csv, statement by statement                *)
(***************************************************************************)

\* file_path = input(...)
Prompt ==
    /\ pc = "start"
    /\ \E p \in Paths : file_path' = p
    /\ pc' = "read_csv"
    /\ Emit("input", "")
    /\ UNCHANGED <<fs, ldf, df, error, chartArg, fig>>

\* Mutant: a failed read is caught and an empty table stands in for it.
LoadReadCsvFallback ==
    /\ pc = "read_csv"
    /\ Emit("read_csv", file_path)
    /\ ldf' = IF OpenStatus(file_path) = "ok"
              THEN ReadCsv(fs)
              ELSE [columns |-> {}, dtypes |-> <<>>, rows |-> <<>>, none |-> FALSE]
    /\ pc' = "coerce_start"
    /\ UNCHANGED <<fs, file_path, df, error, chartArg, fig>>

\* df = pd.read_csv(file_path)
LoadReadCsv ==
    /\ pc = "read_csv"
    /\ Emit("read_csv", file_path)
    /\ IF OpenStatus(file_path) = "ok"
       THEN /\ ldf' = ReadCsv(fs)
            /\ pc' = "coerce_start"
            /\ UNCHANGED error
       ELSE /\ error' = Raised(OpenStatus(file_path), "read_csv")
            /\ pc' = "failed"
            /\ UNCHANGED ldf
    /\ UNCHANGED <<fs, file_path, df, chartArg, fig>>

\* Mutant: Progress is coerced before Start.
LoadCoerceStartProgressFirst ==
    /\ pc = "coerce_start"
    /\ LET p == FloatColumnOutcome(ldf, "Progress")
           o == IF p.error # NoError THEN p
                ELSE DateColumnOutcome(p.table, "Start")
       IN  /\ Emit(o.op, IF p.error # NoError THEN "Progress" ELSE "Start")
           /\ ldf' = o.table
           /\ error' = o.error
           /\ pc' = IF o.error = NoError THEN "coerce_finish" ELSE "failed"
    /\ UNCHANGED <<fs, file_path, df, chartArg, fig>>

\* df['Start'] = pd.to_datetime(df['Start'])
LoadCoerceStart ==
    /\ pc = "coerce_start"
    /\ LET o == DateColumnOutcome(ldf, "Start")
       IN  /\ Emit(o.op, "Start")
           /\ ldf' = o.table
           /\ error' = o.error
           /\ pc' = IF o.error = NoError THEN "coerce_finish" ELSE "failed"
    /\ UNCHANGED <<fs, file_path, df, chartArg, fig>>

\* df['Finish'] = pd.to_datetime(df['Finish'])
LoadCoerceFinish ==
    /\ pc = "coerce_finish"
    /\ LET o == DateColumnOutcome(ldf, "Finish")
       IN  /\ Emit(o.op, "Finish")
           /\ ldf' = o.table
           /\ error' = o.error
           /\ pc' = IF o.error = NoError THEN "coerce_progress" ELSE "failed"
    /\ UNCHANGED <<fs, file_path, df, chartArg, fig>>

\* Mutant: the coercion error is caught and the table returned as it is.
LoadCoerceProgressSwallow ==
    /\ pc = "coerce_progress"
    /\ LET o == FloatColumnOutcome(ldf, "Progress")
       IN  /\ Emit(o.op, "Progress")
           /\ ldf' = o.table
           /\ error' = o.error
           /\ pc' = "loaded"
           /\ df' = o.table
    /\ UNCHANGED <<fs, file_path, chartArg, fig>>

\* df['Progress'] = df['Progress'].astype(float); return df
LoadCoerceProgress ==
    /\ pc = "coerce_progress"
    /\ LET o == FloatColumnOutcome(ldf, "Progress")
       IN  /\ Emit(o.op, "Progress")
           /\ ldf' = o.table
           /\ error' = o.error
           /\ IF o.error = NoError
              THEN pc' = "loaded" /\ df' = o.table
              ELSE pc' = "failed" /\ UNCHANGED df
    /\ UNCHANGED <<fs, file_path, chartArg, fig>>

\* Mutant: the emptiness test is inverted.
EmptyInverted(t) == Len(t.rows) > 0

\* Mutant: only the column axis is tested.
EmptyNoColumns(t) == t.columns = {}

\* DataFrame.empty: some axis has length 0.
Empty(t) == Len(t.rows) = 0 \/ t.columns = {}

\* Mutant: the path is printed in the non-empty branch only.
MainPrintPathNonEmptyOnly ==
    /\ pc = "loaded"
    /\ IF ~Empty(df) THEN Emit("print", file_path) ELSE UNCHANGED trace
    /\ pc' = IF ~Empty(df) THEN "create_gantt_chart" ELSE "print_no_tasks"
    /\ UNCHANGED <<fs, file_path, ldf, df, error, chartArg, fig>>

\* if not df.empty: print(file_path) ... else: print(file_path)
MainPrintPath ==
    /\ pc = "loaded"
    /\ Emit("print", file_path)
    /\ pc' = IF ~Empty(df) THEN "create_gantt_chart" ELSE "print_no_tasks"
    /\ UNCHANGED <<fs, file_path, ldf, df, error, chartArg, fig>>

\* print("No tasks to display.")
MainPrintNoTasks ==
    /\ pc = "print_no_tasks"
    /\ Emit("print", "No tasks to display.")
    /\ pc' = "done"
    /\ UNCHANGED <<fs, file_path, ldf, df, error, chartArg, fig>>

(***************************************************************************)
(* create_gantt_chart                                                      *)
(***************************************************************************)

\* Finish - Start as px.timeline computes it, in days.
Span(start, finish) ==
    IF start.kind = "date" /\ finish.kind = "date"
    THEN [kind |-> "delta", d |-> finish.d - start.d]
    ELSE NaT

\* Mutant: customdata is taken by column position, so a column the file
\* adds takes the place of Description.
BarByPosition(r) ==
    LET extra == DOMAIN r \ RequiredColumns
    IN  [y          |-> r["Task"],
         base       |-> r["Start"],
         x          |-> Span(r["Start"], r["Finish"]),
         color      |-> r["Progress"],
         customdata |-> <<IF extra = {} THEN r["Description"]
                          ELSE r[CHOOSE c \in extra : TRUE],
                          r["Finish"], r["Progress"]>>]

\* The bar px.timeline draws for one record, with the customdata row that
\* update_traces attaches to it.
Bar(r) ==
    [y          |-> r["Task"],
     base       |-> r["Start"],
     x          |-> Span(r["Start"], r["Finish"]),
     color      |-> r["Progress"],
     customdata |-> <<r["Description"], r["Finish"], r["Progress"]>>]

\* Mutant: without range_color the axis spans the Progress values present.
ColorAxisAuto(t) ==
    LET ps == {t.rows[i]["Progress"].n :
                  i \in {j \in 1..Len(t.rows) : t.rows[j]["Progress"].kind = "float"}}
    IN  IF ps = {} THEN [cmin |-> 0, cmax |-> 1]
        ELSE [cmin |-> CHOOSE p \in ps : \A q \in ps : p <= q,
              cmax |-> CHOOSE p \in ps : \A q \in ps : p >= q]

\* range_color=[0, 100]: the domain of the colour axis.
ColorAxis(t) == [cmin |-> 0, cmax |-> 100]

\* color_continuous_scale="Viridis": the stops of the scale, low to high.
Viridis ==
    <<"#440154", "#482878", "#3e4989", "#31688e", "#26828e", "#1f9e89",
      "#35b779", "#6ece58", "#b5de2b", "#fde725">>

\* Position of a value on the colour axis, in thousandths of the domain;
\* a value outside the domain takes the nearest end.
ScalePosition(v, axis) ==
    IF axis.cmax = axis.cmin THEN 500
    ELSE LET p == ((v - axis.cmin) * 1000) \div (axis.cmax - axis.cmin)
         IN  IF p < 0 THEN 0 ELSE IF p > 1000 THEN 1000 ELSE p

\* Colour at a position of the scale: the two stops around it and how far
\* the position lies from the lower one (mix 0 is the stop itself).
ScaleColor(pos) ==
    LET k == (pos * 9) \div 1000
    IN  [from |-> Viridis[k + 1],
         to   |-> Viridis[IF k = 9 THEN 10 ELSE k + 2],
         mix  |-> pos * 9 - k * 1000]

\* Fill colour of a bar of a figure; a missing Progress has no colour.
FillColor(f, b) ==
    IF b.color.kind = "float"
    THEN ScaleColor(ScalePosition(b.color.n, f.coloraxis))
    ELSE [from |-> "none", to |-> "none", mix |-> 0]

\* Mutant: records that repeat an earlier Task label are merged into its bar.
FigureMergedByTask(t) ==
    LET keep == {i \in 1..Len(t.rows) :
                    \A j \in 1..(i - 1) : t.rows[j]["Task"] # t.rows[i]["Task"]}
        nth(k) == CHOOSE i \in keep : Cardinality({j \in keep : j < i}) = k - 1
    IN  [bars      |-> [k \in 1..Cardinality(keep) |-> Bar(t.rows[nth(k)])],
         coloraxis |-> ColorAxis(t),
         none      |-> FALSE]

\* Mutant: the customdata rows are attached one bar further on.
FigureCustomdataShifted(t) ==
    LET n == Len(t.rows)
    IN  [bars      |-> [i \in 1..n |->
                          [Bar(t.rows[i]) EXCEPT
                              !.customdata = Bar(t.rows[(i % n) + 1]).customdata]],
         coloraxis |-> ColorAxis(t),
         none      |-> FALSE]

\* The figure: one trace holding one bar per record, in table order.
Figure(t) ==
    [bars      |-> [i \in 1..Len(t.rows) |-> Bar(t.rows[i])],
     coloraxis |-> ColorAxis(t),
     none      |-> FALSE]

(***************************************************************************)
(* The hover tooltip                                                       *)
(***************************************************************************)

\* The text a number is shown as.
NumberText ==
    (0 :> "0") @@ (50 :> "50") @@ (100 :> "100") @@ (150 :> "150") @@
    (-5 :> "-5") @@ (7 :> "7")

\* A date formatted with %Y-%m-%d.
DateText(v) ==
    IF v.kind = "date" /\ \E s \in DOMAIN DateLiteral : DateLiteral[s] = v.d
    THEN CHOOSE s \in DOMAIN DateLiteral : DateLiteral[s] = v.d
    ELSE "NaT"

\* A text or number as the template shows it.
ValueText(v) ==
    CASE v.kind = "str" -> v.s
      [] v.kind \in {"int", "float"} /\ v.n \in DOMAIN NumberText -> NumberText[v.n]
      [] OTHER -> "NaN"

\* %{x} of a bar that has a base: the position where the bar ends, which is
\* base + x (px.timeline keeps Start in base and Finish - Start in x).
HoverX(b) ==
    IF b.base.kind = "date" /\ b.x.kind = "delta"
    THEN DateVal(b.base.d + b.x.d)
    ELSE NaT

\* hovertemplate applied to a bar: the lines of the tooltip, each a label,
\* a value and a suffix.
Tooltip(b) ==
    << <<"Task: ", ValueText(b.y), "">>,
       <<"Start: ", DateText(HoverX(b)), "">>,
       <<"End: ", DateText(b.customdata[2]), "">>,
       <<"Progress: ", ValueText(b.customdata[3]), "%">>,
       <<"Description: ", ValueText(b.customdata[1]), "">> >>

\* The columns px.timeline is told to read.
TimelineColumns == {"Start", "Finish", "Task", "Progress"}

\* Mutant: show waits for the viewer to be closed and does not return.
CreateGanttChartBlocking ==
    /\ pc = "create_gantt_chart"
    /\ chartArg' = df
    /\ IF ~(TimelineColumns \subseteq df.columns)
       THEN /\ trace' = trace \o <<Event("create_gantt_chart", ""),
                                    Event("timeline", "")>>
            /\ error' = Raised("ValueError", "timeline")
            /\ pc' = "failed"
            /\ UNCHANGED fig
       ELSE IF "Description" \notin df.columns
       THEN /\ trace' = trace \o <<Event("create_gantt_chart", ""),
                                    Event("timeline", ""),
                                    Event("getitem", "Description")>>
            /\ error' = Raised("KeyError", "create_gantt_chart")
            /\ pc' = "failed"
            /\ UNCHANGED fig
       ELSE /\ trace' = trace \o <<Event("create_gantt_chart", ""),
                                    Event("timeline", ""),
                                    Event("update_traces", ""),
                                    Event("show", "")>>
            /\ fig' = Figure(df)
            /\ pc' = "showing"
            /\ UNCHANGED error
    /\ UNCHANGED <<fs, file_path, ldf, df>>

\* Mutant: the renderer computes the bar lengths in the caller's table,
\* overwriting its Finish column.
CreateGanttChartInPlace ==
    /\ pc = "create_gantt_chart"
    /\ chartArg' = df
    /\ IF ~(TimelineColumns \subseteq df.columns)
       THEN /\ trace' = trace \o <<Event("create_gantt_chart", ""),
                                    Event("timeline", "")>>
            /\ error' = Raised("ValueError", "timeline")
            /\ pc' = "failed"
            /\ UNCHANGED <<fig, df>>
       ELSE IF "Description" \notin df.columns
       THEN /\ trace' = trace \o <<Event("create_gantt_chart", ""),
                                    Event("timeline", ""),
                                    Event("getitem", "Description")>>
            /\ error' = Raised("KeyError", "create_gantt_chart")
            /\ pc' = "failed"
            /\ UNCHANGED <<fig, df>>
       ELSE /\ trace' = trace \o <<Event("create_gantt_chart", ""),
                                    Event("timeline", ""),
                                    Event("update_traces", ""),
                                    Event("show", "")>>
            /\ fig' = Figure(df)
            /\ df' = SetColumn(df, "Finish", "float64",
                               [i \in 1..Len(df.rows) |->
                                  Span(df.rows[i]["Start"], df.rows[i]["Finish"])])
            /\ pc' = "done"
            /\ UNCHANGED error
    /\ UNCHANGED <<fs, file_path, ldf>>

\* create_gantt_chart(df): px.timeline, update_layout, update_traces, show.
CreateGanttChart ==
    /\ pc = "create_gantt_chart"
    /\ chartArg' = df
    /\ IF ~(TimelineColumns \subseteq df.columns)
       THEN /\ trace' = trace \o <<Event("create_gantt_chart", ""),
                                    Event("timeline", "")>>
            /\ error' = Raised("ValueError", "timeline")
            /\ pc' = "failed"
            /\ UNCHANGED fig
       ELSE IF "Description" \notin df.columns
       THEN /\ trace' = trace \o <<Event("create_gantt_chart", ""),
                                    Event("timeline", ""),
                                    Event("getitem", "Description")>>
            /\ error' = Raised("KeyError", "create_gantt_chart")
            /\ pc' = "failed"
            /\ UNCHANGED fig
       ELSE /\ trace' = trace \o <<Event("create_gantt_chart", ""),
                                    Event("timeline", ""),
                                    Event("update_traces", ""),
                                    Event("show", "")>>
            /\ fig' = Figure(df)
            /\ pc' = "done"
            /\ UNCHANGED error
    /\ UNCHANGED <<fs, file_path, ldf, df>>

(***************************************************************************)
(* CSV files                                                               *)
(***************************************************************************)

\* A header: the required columns, one of them left out, or one more column.
HeaderVariants ==
    {RequiredColumns, RequiredColumns \cup {"Owner"}}
        \cup {RequiredColumns \ {c} : c \in RequiredColumns}

\* The data rows over a header whose cells come from the vocabulary v.
RowsOver(header, v) ==
    {[c \in header |-> r[c]] :
        r \in [Task : v.Task, Start : v.Start, Finish : v.Finish,
               Progress : v.Progress, Description : v.Description,
               Owner : {"Ann"}]}

\* The CSV files with one of the headers and at most MaxRows data rows.
CsvFiles(headers, v) ==
    UNION {{[header |-> h, rows |-> rs] :
                rs \in UNION {[1..n -> RowsOver(h, v)] : n \in 0..MaxRows}} :
           h \in headers}

\* Vocabulary with malformed cells in each coerced column.
FlowVocab ==
    [Task        |-> {"Design"},
     Start       |-> {"2024-01-01", "soon"},
     Finish      |-> {"2024-01-08", "later"},
     Progress    |-> {"50", "abc"},
     Description |-> {"Draft layout"}]

\* Vocabulary of well-formed cells: inverted and forward date ranges,
\* progress inside and outside 0..100, numeric-looking and missing-looking
\* texts.
ValueVocab ==
    [Task        |-> {"Design", "007"},
     Start       |-> {"2024-01-08"},
     Finish      |-> {"2024-01-01", "2024-01-15"},
     Progress    |-> {"50", "150", "-5"},
     Description |-> {"Draft layout", "N/A"}]

\* Vocabulary of progress values at, inside and outside the ends of 0..100.
ColorVocab ==
    [Task        |-> {"Design"},
     Start       |-> {"2024-01-01"},
     Finish      |-> {"2024-01-08"},
     Progress    |-> {"0", "50", "100", "150", "-5"},
     Description |-> {"Draft layout"}]

\* Vocabulary of well-formed records that differ in every displayed field.
ChartVocab ==
    [Task        |-> {"Design", "Build"},
     Start       |-> {"2024-01-01"},
     Finish      |-> {"2024-01-08", "2024-01-15"},
     Progress    |-> {"50", "0"},
     Description |-> {"Draft layout", "Review"}]

\* Vocabulary with blank Start, Finish and Progress cells.
BlankVocab ==
    [Task        |-> {"Design"},
     Start       |-> {"2024-01-01", ""},
     Finish      |-> {"2024-01-08", ""},
     Progress    |-> {"50", ""},
     Description |-> {"Draft layout"}]

InitRun ==
    /\ pc = "start"
    /\ file_path = ""
    /\ ldf = NoTable
    /\ df = NoTable
    /\ error = NoError
    /\ trace = <<>>
    /\ chartArg = NoTable
    /\ fig = NoFig

Init ==
    /\ fs \in CsvFiles(HeaderVariants, FlowVocab)
    /\ InitRun

InitValues ==
    /\ fs \in CsvFiles({RequiredColumns}, ValueVocab)
    /\ InitRun

InitColor ==
    /\ fs \in CsvFiles({RequiredColumns}, ColorVocab)
    /\ InitRun

InitChart ==
    /\ fs \in CsvFiles({RequiredColumns}, ChartVocab)
    /\ InitRun

InitBlank ==
    /\ fs \in CsvFiles({RequiredColumns}, BlankVocab)
    /\ InitRun

Next ==
    \/ Prompt
    \/ LoadReadCsv
    \/ LoadCoerceStart
    \/ LoadCoerceFinish
    \/ LoadCoerceProgress
    \/ MainPrintPath
    \/ MainPrintNoTasks
    \/ CreateGanttChart

Spec == Init /\ [][Next]_vars

SpecValues == InitValues /\ [][Next]_vars

SpecColor == InitColor /\ [][Next]_vars

SpecChart == InitChart /\ [][Next]_vars

\* The statements that follow the prompt: each runs as soon as the one
\* before it has returned.
AfterPrompt ==
    \/ LoadReadCsv
    \/ LoadCoerceStart
    \/ LoadCoerceFinish
    \/ LoadCoerceProgress
    \/ MainPrintPath
    \/ MainPrintNoTasks
    \/ CreateGanttChart

\* A run whose statements are executed once the path has been entered; the
\* prompt itself may wait for input for ever.
SpecLive == Init /\ [][Next]_vars /\ WF_vars(AfterPrompt)

SpecBlank == InitBlank /\ [][Next]_vars

\* The run has ended.
Terminated == pc \in {"done", "failed"}

TypeOK ==
    /\ pc \in {"start", "read_csv", "coerce_start", "coerce_finish",
               "coerce_progress", "loaded", "create_gantt_chart",
               "print_no_tasks", "done", "failed"}
    /\ file_path \in Paths \cup {""}
    /\ Len(df.rows) <= MaxRows

(***************************************************************************)
(* Vocabulary of the properties                                            *)
(***************************************************************************)

\* The error classes of the specification, by the exception raised.
Taxonomy(e) ==
    CASE e.exc \in {"FileNotFoundError", "PermissionError"} -> "FileAccessError"
      [] e.exc = "KeyError" -> "SchemaError"
      [] e.exc = "ValueError" /\ e.in \in {"to_datetime", "astype"} ->
            "ValueCoercionError"
      [] e.exc = "none" -> "none"
      [] OTHER -> "RenderError"

\* The error was raised while load_tasks_from_csv was running.
InLoader(e) == e.in \in {"read_csv", "load_tasks_from_csv", "to_datetime", "astype"}

Count(op) == Cardinality({i \in DOMAIN trace : trace[i].op = op})

Printed(text) == \E i \in DOMAIN trace : trace[i] = Event("print", text)

NoTasksMessage == "No tasks to display."

CoercedColumns == {"Start", "Finish", "Progress"}

\* A cell text the coercion of its column rejects.
Malformed(c, s) ==
    /\ s \notin NAValues
    /\ IF c = "Progress" THEN s \notin DOMAIN NumLiteral
                         ELSE s \notin DOMAIN DateLiteral

\* Every cell of a coerced column holds a value of the column's type.
CellsValid(csv) ==
    \A i \in DOMAIN csv.rows : \A c \in CoercedColumns \cap csv.header :
        /\ csv.rows[i][c] \notin NAValues
        /\ ~Malformed(c, csv.rows[i][c])

\* The run read the CSV file (not a missing or unreadable path).
ReadsPlan == file_path = "plan.csv"

(***************************************************************************)
(* C1                                                                      *)
(***************************************************************************)

\* C1: in a run whose load succeeds, a non-empty table has the Chart
\* Renderer invoked exactly once and the "no tasks" message never printed,
\* an empty table has the message printed and the renderer never invoked.
C1_RenderXorMessage ==
    /\ Count("create_gantt_chart") <= 1
    /\ ~df.none =>
         /\ Len(df.rows) > 0 => ~Printed(NoTasksMessage)
         /\ Len(df.rows) = 0 => Count("create_gantt_chart") = 0
         /\ Terminated /\ Len(df.rows) > 0 => Count("create_gantt_chart") = 1
         /\ Terminated /\ Len(df.rows) = 0 => Printed(NoTasksMessage)

C1_Witness ==
    /\ pc = "done"
    /\ Len(df.rows) > 0
    /\ Count("create_gantt_chart") = 1
    /\ ~fig.none

(***************************************************************************)
(* C2                                                                      *)
(***************************************************************************)

\* The values a cell text can be read as.
Readings(s) ==
    {StrVal(s), NaN}
        \cup (IF s \in DOMAIN NumLiteral
              THEN {IntVal(NumLiteral[s]), FloatVal(NumLiteral[s])} ELSE {})

\* C2: the table returned for a well-formed CSV of N >= 1 rows has exactly
\* N records, the i-th built from the i-th data row, with Start and Finish
\* dates and Progress a float.
C2_OneRecordPerRowInOrder ==
    (~df.none /\ Len(fs.rows) >= 1 /\ CellsValid(fs)) =>
        /\ Len(df.rows) = Len(fs.rows)
        /\ df.dtypes["Start"] = "datetime64"
        /\ df.dtypes["Finish"] = "datetime64"
        /\ df.dtypes["Progress"] = "float64"
        /\ \A i \in 1..Len(fs.rows) :
             /\ df.rows[i]["Task"] \in Readings(fs.rows[i]["Task"])
             /\ df.rows[i]["Description"] \in Readings(fs.rows[i]["Description"])
             /\ df.rows[i]["Start"] = DateVal(DateLiteral[fs.rows[i]["Start"]])
             /\ df.rows[i]["Finish"] = DateVal(DateLiteral[fs.rows[i]["Finish"]])
             /\ df.rows[i]["Progress"] = FloatVal(NumLiteral[fs.rows[i]["Progress"]])

C2_Witness ==
    /\ pc = "loaded"
    /\ Len(df.rows) = 2
    /\ fs.rows[1]["Task"] # fs.rows[2]["Task"]
    /\ fs.rows[1]["Finish"] # fs.rows[2]["Finish"]
    /\ fs.rows[1]["Progress"] # fs.rows[2]["Progress"]

(***************************************************************************)
(* C3                                                                      *)
(***************************************************************************)

\* The header lacks exactly the column c of the required ones.
Lacks(c) == RequiredColumns \ fs.header = {c}

\* C3 as stated: for each required column, an otherwise well-formed CSV
\* whose header lacks it fails to load in the Task Loader with a
\* SchemaError, and no chart is produced.
C3_Original ==
    \A c \in RequiredColumns :
        (Lacks(c) /\ CellsValid(fs) /\ ReadsPlan /\ Terminated) =>
            /\ pc = "failed"
            /\ Taxonomy(error) = "SchemaError"
            /\ InLoader(error)
            /\ df.none
            /\ fig.none

\* C3 amended: a header lacking Start, Finish or Progress fails the load in
\* the Task Loader (with a SchemaError when the cells are well-formed); a
\* header lacking Task or Description loads, and then an empty table takes
\* the "no tasks" path while a non-empty one fails inside the Chart
\* Renderer before the chart is shown.  No chart is produced in any case.
C3_MissingColumn ==
    \A c \in RequiredColumns :
        (Lacks(c) /\ ReadsPlan /\ Terminated) =>
            /\ fig.none
            /\ Count("show") = 0
            /\ c \in CoercedColumns =>
                 /\ pc = "failed"
                 /\ InLoader(error)
                 /\ df.none
                 /\ Count("create_gantt_chart") = 0
                 /\ CellsValid(fs) => Taxonomy(error) = "SchemaError"
            /\ (c \notin CoercedColumns /\ CellsValid(fs)) =>
                 /\ ~df.none
                 /\ Len(fs.rows) = 0 =>
                      pc = "done" /\ Printed(NoTasksMessage)
                 /\ Len(fs.rows) > 0 =>
                      /\ pc = "failed"
                      /\ ~InLoader(error)
                      /\ error = IF c = "Task"
                                 THEN Raised("ValueError", "timeline")
                                 ELSE Raised("KeyError", "create_gantt_chart")

C3_Witness ==
    /\ Lacks("Description")
    /\ Len(fs.rows) > 0
    /\ pc = "failed"
    /\ error.in = "create_gantt_chart"
    /\ ~df.none

(***************************************************************************)
(* C4                                                                      *)
(***************************************************************************)

\* Some data row holds a Start, Finish or Progress text that cannot be
\* coerced.
SomeRowMalformed ==
    \E i \in DOMAIN fs.rows : \E c \in CoercedColumns :
        Malformed(c, fs.rows[i][c])

\* C4: when the coerced columns are present and some row holds a malformed
\* Start, Finish or Progress, the load fails with a ValueCoercionError, no
\* table is returned and the Chart Renderer is never invoked.
C4_MalformedRowAbortsLoad ==
    (CoercedColumns \subseteq fs.header /\ SomeRowMalformed /\ ReadsPlan) =>
        /\ df.none
        /\ chartArg.none
        /\ fig.none
        /\ Count("create_gantt_chart") = 0
        /\ pc \notin {"loaded", "create_gantt_chart", "print_no_tasks", "done"}
        /\ Terminated =>
             /\ pc = "failed"
             /\ Taxonomy(error) = "ValueCoercionError"
             /\ InLoader(error)

C4_Witness ==
    /\ pc = "failed"
    /\ Len(fs.rows) = 2
    /\ RequiredColumns \subseteq fs.header
    /\ \A c \in CoercedColumns : ~Malformed(c, fs.rows[1][c])
    /\ Malformed("Finish", fs.rows[2]["Finish"])
    /\ Taxonomy(error) = "ValueCoercionError"

(***************************************************************************)
(* C5                                                                      *)
(***************************************************************************)

ParsingOps == {"getitem", "to_datetime", "astype"}

\* C5: a path that is missing or unreadable fails in read_csv with a
\* FileAccessError, no parsing step is attempted and the read is made once.
C5_FileAccessErrorFirst ==
    (file_path \in {"missing.csv", "locked.csv"} /\ Count("read_csv") > 0) =>
        /\ pc = "failed"
        /\ Taxonomy(error) = "FileAccessError"
        /\ error.in = "read_csv"
        /\ Count("read_csv") = 1
        /\ \A i \in DOMAIN trace : trace[i].op \notin ParsingOps
        /\ ldf.none
        /\ df.none

C5_Witness ==
    /\ file_path = "missing.csv"
    /\ pc = "failed"
    /\ error.exc = "FileNotFoundError"
    /\ trace[Len(trace)].op = "read_csv"

(***************************************************************************)
(* C6                                                                      *)
(***************************************************************************)

\* C6: once the loader has raised, the run is over in the failed state: the
\* loader was called once, nothing was printed, the Chart Renderer was not
\* invoked and no further step is taken.
C6_LoadErrorEndsRun ==
    (error # NoError /\ InLoader(error)) =>
        /\ pc = "failed"
        /\ ~ENABLED Next
        /\ df.none
        /\ Count("read_csv") = 1
        /\ Count("print") = 0
        /\ Count("create_gantt_chart") = 0
        /\ fig.none

C6_Witness ==
    /\ pc = "failed"
    /\ error = [exc |-> "ValueError", in |-> "astype"]
    /\ Count("to_datetime") = 2

(***************************************************************************)
(* C7                                                                      *)
(***************************************************************************)

\* C7: a CSV of a valid header and zero data rows loads without error into
\* an empty table; the run prints "No tasks to display." and makes no
\* rendering call.
C7_HeaderOnlyFile ==
    (RequiredColumns \subseteq fs.header /\ Len(fs.rows) = 0 /\ ReadsPlan) =>
        /\ error = NoError
        /\ Count("create_gantt_chart") = 0
        /\ Count("timeline") = 0
        /\ fig.none
        /\ Terminated =>
             /\ pc = "done"
             /\ ~df.none
             /\ Len(df.rows) = 0
             /\ df.columns = fs.header
             /\ Printed(NoTasksMessage)

C7_Witness ==
    /\ fs.header = RequiredColumns
    /\ Len(fs.rows) = 0
    /\ pc = "done"
    /\ trace[Len(trace)] = Event("print", NoTasksMessage)

(***************************************************************************)
(* C8                                                                      *)
(***************************************************************************)

\* Positions of the trace holding the event e.
Positions(e) == {i \in DOMAIN trace : trace[i] = e}

\* Positions of the trace holding a call of op.
Calls(op) == {i \in DOMAIN trace : trace[i].op = op}

\* C8: the prompt precedes any file access; the file path is printed
\* before the chart is opened; on an empty load the path is printed and
\* the "no tasks" message follows it immediately; the path is printed
\* exactly once in either case.
C8_EventOrder ==
    /\ \A i \in Calls("read_csv") : \E j \in Calls("input") : j < i
    /\ Cardinality(Calls("input")) <= 1
    /\ Cardinality(Positions(Event("print", file_path))) <= 1
    /\ \A i \in Calls("create_gantt_chart") \cup Calls("show") :
          \E j \in Positions(Event("print", file_path)) : j < i
    /\ \A i \in Positions(Event("print", NoTasksMessage)) :
          /\ i > 1
          /\ trace[i - 1] = Event("print", file_path)
    /\ (pc = "done") =>
          /\ Cardinality(Positions(Event("print", file_path))) = 1
          /\ Count("show") + Cardinality(Positions(Event("print", NoTasksMessage))) = 1

C8_Witness ==
    /\ pc = "done"
    /\ Len(df.rows) = 0
    /\ Len(trace) >= 2
    /\ trace[Len(trace) - 1] = Event("print", "plan.csv")
    /\ trace[Len(trace)] = Event("print", NoTasksMessage)

(***************************************************************************)
(* C9                                                                      *)
(***************************************************************************)

\* C9 as stated: Task, Progress and Description read back from the table
\* equal the texts and numbers written in the file.
C9_Original ==
    (~df.none /\ CellsValid(fs)) =>
        \A i \in 1..Len(fs.rows) :
            /\ df.rows[i]["Task"] = StrVal(fs.rows[i]["Task"])
            /\ df.rows[i]["Description"] = StrVal(fs.rows[i]["Description"])
            /\ df.rows[i]["Progress"].kind = "float"
            /\ df.rows[i]["Progress"].n = NumLiteral[fs.rows[i]["Progress"]]

\* Column c of the file holds a text that is neither a missing-value
\* marker nor a number, so the column is read as text.
ReadAsText(c) ==
    \E i \in DOMAIN fs.rows :
        fs.rows[i][c] \notin NAValues /\ fs.rows[i][c] \notin DOMAIN NumLiteral

\* C9 amended: Progress reads back as the float of the number written; a
\* Task or Description cell reads back as the text written unless it is
\* one of the missing-value markers (read back as missing) or every cell
\* of its column is a number or a marker (read back as a number).
C9_RoundTrip ==
    (~df.none /\ CellsValid(fs)) =>
        \A i \in 1..Len(fs.rows) :
            /\ df.rows[i]["Progress"] = FloatVal(NumLiteral[fs.rows[i]["Progress"]])
            /\ \A c \in {"Task", "Description"} :
                 LET s == fs.rows[i][c]
                 IN  /\ (s \notin NAValues /\ ReadAsText(c)) =>
                          df.rows[i][c] = StrVal(s)
                     /\ s \in NAValues => df.rows[i][c] = NaN
                     /\ (s \notin NAValues /\ ~ReadAsText(c)) =>
                          /\ df.rows[i][c].kind \in {"int", "float"}
                          /\ df.rows[i][c].n = NumLiteral[s]

C9_Witness ==
    /\ pc = "loaded"
    /\ Len(df.rows) = 2
    /\ fs.rows[1]["Task"] = "007"
    /\ df.rows[1]["Task"] = StrVal("007")
    /\ df.rows[2]["Task"] = StrVal("Design")
    /\ df.rows[1]["Description"] = StrVal("Draft layout")
    /\ df.rows[1]["Progress"] = FloatVal(150)

(***************************************************************************)
(* C10                                                                     *)
(***************************************************************************)

\* Row i of the file has Finish before Start.
Inverted(i) ==
    DateLiteral[fs.rows[i]["Finish"]] < DateLiteral[fs.rows[i]["Start"]]

\* Row i of the file has Progress outside 0..100.
OutOfRange(i) ==
    NumLiteral[fs.rows[i]["Progress"]] < 0 \/ NumLiteral[fs.rows[i]["Progress"]] > 100

\* C10: a file holding records with Finish before Start or Progress outside
\* 0..100 loads, and the Start, Finish and Progress of every such record
\* reach the Chart Renderer as written.
C10_NoValidation ==
    (ReadsPlan /\ Terminated /\ CellsValid(fs) /\ Len(fs.rows) > 0
        /\ RequiredColumns \subseteq fs.header) =>
        /\ pc = "done"
        /\ error = NoError
        /\ ~chartArg.none
        /\ Len(chartArg.rows) = Len(fs.rows)
        /\ Len(fig.bars) = Len(fs.rows)
        /\ \A i \in 1..Len(fs.rows) : (Inverted(i) \/ OutOfRange(i)) =>
             /\ chartArg.rows[i]["Start"] = DateVal(DateLiteral[fs.rows[i]["Start"]])
             /\ chartArg.rows[i]["Finish"] = DateVal(DateLiteral[fs.rows[i]["Finish"]])
             /\ chartArg.rows[i]["Progress"] = FloatVal(NumLiteral[fs.rows[i]["Progress"]])
             /\ fig.bars[i].base = chartArg.rows[i]["Start"]
             /\ fig.bars[i].x.d =
                    DateLiteral[fs.rows[i]["Finish"]] - DateLiteral[fs.rows[i]["Start"]]
             /\ fig.bars[i].color = chartArg.rows[i]["Progress"]

C10_Witness ==
    /\ pc = "done"
    /\ Len(fs.rows) = 2
    /\ Inverted(1) /\ fs.rows[1]["Progress"] = "150"
    /\ ~Inverted(2) /\ fs.rows[2]["Progress"] = "-5"
    /\ fig.bars[1].x.d < 0
    /\ fig.bars[2].color = FloatVal(-5)

(***************************************************************************)
(* C11                                                                     *)
(***************************************************************************)

LowEndColor == [from |-> "#440154", to |-> "#482878", mix |-> 0]

HighEndColor == [from |-> "#fde725", to |-> "#fde725", mix |-> 0]

\* C11: whatever Progress values the table holds, a bar of Progress 0 or
\* less has the low end colour of the scale, a bar of Progress 100 or more
\* the high end colour, and a bar of Progress 50 lies half way.
C11_FixedColorDomain ==
    (pc = "done" /\ ~fig.none) =>
        \A i \in 1..Len(fig.bars) :
            LET p == NumLiteral[fs.rows[i]["Progress"]]
                c == FillColor(fig, fig.bars[i])
            IN  /\ p <= 0 => c = LowEndColor
                /\ p >= 100 => c = HighEndColor
                /\ p = 50 => c.from = "#26828e" /\ c.to = "#1f9e89" /\ c.mix = 500

C11_Witness ==
    /\ pc = "done"
    /\ Len(fig.bars) = 2
    /\ fs.rows[1]["Progress"] = "150"
    /\ fs.rows[2]["Progress"] = "-5"
    /\ FillColor(fig, fig.bars[1]) = HighEndColor
    /\ FillColor(fig, fig.bars[2]) = LowEndColor

(***************************************************************************)
(* C12                                                                     *)
(***************************************************************************)

\* C12: the tooltip of every bar has five lines, in order the task label,
\* the start date, the finish date, the progress followed by a percent
\* sign and the description of the bar's record; the record ("Design",
\* 2024-01-01, 2024-01-08, 50, "Draft layout") shows "Progress: 50%".
C12_TooltipLines ==
    (pc = "done" /\ ~fig.none) =>
        \A i \in 1..Len(fig.bars) :
            LET tip == Tooltip(fig.bars[i])
                row == fs.rows[i]
            IN  /\ Len(tip) = 5
                /\ tip[1] = <<"Task: ", row["Task"], "">>
                /\ tip[2] = <<"Start: ", row["Start"], "">>
                /\ tip[3] = <<"End: ", row["Finish"], "">>
                /\ tip[4] = <<"Progress: ", row["Progress"], "%">>
                /\ tip[5] = <<"Description: ", row["Description"], "">>

(***************************************************************************)
(* C13                                                                     *)
(***************************************************************************)

\* C13: a table of N records gives N bars, the i-th from the i-th record's
\* Start to its Finish at the y-category of its Task; records with the
\* same Task keep their own bars.
C13_OneBarPerRecord ==
    (pc = "done" /\ ~fig.none) =>
        /\ Len(fig.bars) = Len(fs.rows)
        /\ \A i \in 1..Len(fs.rows) :
             /\ fig.bars[i].y = StrVal(fs.rows[i]["Task"])
             /\ fig.bars[i].base = DateVal(DateLiteral[fs.rows[i]["Start"]])
             /\ fig.bars[i].base.d + fig.bars[i].x.d = DateLiteral[fs.rows[i]["Finish"]]

C13_Witness ==
    /\ pc = "done"
    /\ Len(fig.bars) = 2
    /\ fs.rows[1]["Task"] = fs.rows[2]["Task"]
    /\ fig.bars[1].y = fig.bars[2].y
    /\ fig.bars[1].x # fig.bars[2].x

(***************************************************************************)
(* C14                                                                     *)
(***************************************************************************)

\* The file without the columns that are not required.
WithoutExtraColumns(csv) ==
    LET h == csv.header \cap RequiredColumns
    IN  [header |-> h,
         rows   |-> [i \in 1..Len(csv.rows) |-> [c \in h |-> csv.rows[i][c]]]]

\* C14: a CSV with the five required columns and more loads like the same
\* CSV without the additional columns: the same error or the same Task,
\* Start, Finish, Progress and Description values, bars and tooltips.
C14_ExtraColumnsIgnored ==
    (RequiredColumns \subseteq fs.header /\ fs.header # RequiredColumns
        /\ ReadsPlan /\ Terminated) =>
        LET ref == LoadOutcome(WithoutExtraColumns(fs))
            shown == Figure(ref.table)
        IN  /\ error = ref.error
            /\ df.none = ref.table.none
            /\ ~df.none =>
                 /\ Len(df.rows) = Len(ref.table.rows)
                 /\ \A i \in 1..Len(df.rows) : \A c \in RequiredColumns :
                      df.rows[i][c] = ref.table.rows[i][c]
            /\ (~df.none /\ Len(df.rows) > 0) =>
                 /\ pc = "done"
                 /\ fig.bars = shown.bars
                 /\ \A i \in 1..Len(fig.bars) :
                      Tooltip(fig.bars[i]) = Tooltip(shown.bars[i])

C14_Witness ==
    /\ "Owner" \in fs.header
    /\ RequiredColumns \subseteq fs.header
    /\ pc = "done"
    /\ Len(fig.bars) = 2
    /\ fig.bars[1].customdata[1] = StrVal("Draft layout")

(***************************************************************************)
(* C15                                                                     *)
(***************************************************************************)

\* C15: the table is built by one read; once the loader has returned it no
\* step changes a record of it, the renderer is handed that same table,
\* and no step of a run changes the CSV file.
C15_NoMutationNoWriteBack ==
    /\ [](Count("read_csv") <= 1 /\ (chartArg.none \/ chartArg = df))
    /\ [][(fs' = fs) /\ (~df.none => df' = df)
            /\ (~chartArg.none => chartArg' = chartArg)]_vars

C15_Witness ==
    /\ pc = "done"
    /\ ~fig.none
    /\ Len(df.rows) = 2
    /\ chartArg = df
    /\ df = LoadOutcome(fs).table

(***************************************************************************)
(* C16                                                                     *)
(***************************************************************************)

\* No call or print occurs twice in the run.
NoRepeatedEvent ==
    \A i, j \in DOMAIN trace : trace[i] = trace[j] => i = j

\* C16: once a path has been entered the run ends, done or failed; the run
\* is done as soon as the chart has been shown, no step is repeated and no
\* step follows the end.
C16_RunTerminates ==
    /\ (pc # "start") ~> Terminated
    /\ [](NoRepeatedEvent /\ (Count("show") > 0 => pc = "done"))
    /\ [][~Terminated]_vars

C16_Witness ==
    /\ pc = "done"
    /\ Count("show") = 1
    /\ trace[Len(trace)] = Event("show", "")

(***************************************************************************)
(* C17                                                                     *)
(***************************************************************************)

\* C17: the End, Progress and Description in the tooltip of the i-th bar
\* are those of the record whose Task, Start and Finish define that bar.
C17_TooltipAligned ==
    (pc = "done" /\ ~fig.none) =>
        \A i \in 1..Len(fig.bars) :
            LET b == fig.bars[i]
                r == df.rows[i]
                tip == Tooltip(b)
            IN  /\ b.y = r["Task"]
                /\ b.base = r["Start"]
                /\ b.x = Span(r["Start"], r["Finish"])
                /\ b.customdata = <<r["Description"], r["Finish"], r["Progress"]>>
                /\ tip[3] = <<"End: ", fs.rows[i]["Finish"], "">>
                /\ tip[4] = <<"Progress: ", fs.rows[i]["Progress"], "%">>
                /\ tip[5] = <<"Description: ", fs.rows[i]["Description"], "">>

C17_Witness ==
    /\ pc = "done"
    /\ Len(fig.bars) = 2
    /\ fs.rows[1]["Task"] = fs.rows[2]["Task"]
    /\ fs.rows[1]["Finish"] # fs.rows[2]["Finish"]
    /\ fs.rows[1]["Progress"] # fs.rows[2]["Progress"]
    /\ fs.rows[1]["Description"] # fs.rows[2]["Description"]
    /\ Tooltip(fig.bars[1])[3] # Tooltip(fig.bars[2])[3]

(***************************************************************************)
(* C18                                                                     *)
(***************************************************************************)

\* The first defect of a file in the order Start, Finish, Progress, a
\* missing column before a malformed cell of that column, whatever the row.
FirstDefect(csv, cols) ==
    LET bad(c) == c \notin csv.header
                    \/ \E i \in DOMAIN csv.rows : Malformed(c, csv.rows[i][c])
        first == IF bad(cols[1]) THEN 1 ELSE IF bad(cols[2]) THEN 2
                 ELSE IF bad(cols[3]) THEN 3 ELSE 0
    IN  IF first = 0 THEN [column |-> "none", error |-> NoError]
        ELSE [column |-> cols[first],
              error  |-> IF cols[first] \notin csv.header
                         THEN Raised("KeyError", "load_tasks_from_csv")
                         ELSE IF cols[first] = "Progress"
                         THEN Raised("ValueError", "astype")
                         ELSE Raised("ValueError", "to_datetime")]

\* Place of a column in the claimed order of checks.
CheckRank(c) == IF c = "Start" THEN 1 ELSE IF c = "Finish" THEN 2 ELSE 3

\* C18: the loader checks Start, then Finish, then Progress, each column
\* over all rows, and the error of a run is the first defect in that
\* order, whatever rows the defects are in.
C18_FirstDefectInColumnOrder ==
    (ReadsPlan /\ Terminated) =>
        LET d == FirstDefect(fs, <<"Start", "Finish", "Progress">>)
        IN  /\ d.error # NoError =>
                 /\ pc = "failed"
                 /\ error = d.error
                 /\ trace[Len(trace)].arg = d.column
                 /\ trace[Len(trace) - 1].op \in {"read_csv", "to_datetime"}
            /\ d.error = NoError => ~InLoader(error)
            /\ \A i, j \in DOMAIN trace :
                 (/\ trace[i].op \in ParsingOps
                  /\ trace[j].op \in ParsingOps
                  /\ trace[i].arg \in CoercedColumns
                  /\ trace[j].arg \in CoercedColumns
                  /\ CheckRank(trace[i].arg) < CheckRank(trace[j].arg)) => i < j

C18_Witness ==
    /\ pc = "failed"
    /\ Lacks("Finish")
    /\ Len(fs.rows) = 2
    /\ fs.rows[1]["Start"] = "2024-01-01"
    /\ fs.rows[1]["Progress"] = "abc"
    /\ fs.rows[2]["Start"] = "soon"
    /\ error = Raised("ValueError", "to_datetime")
    /\ trace[Len(trace)] = Event("to_datetime", "Start")

(***************************************************************************)
(* C19                                                                     *)
(***************************************************************************)

\* The loader has returned, or the run ended without it returning.
LoadSettled ==
    pc \in {"loaded", "create_gantt_chart", "print_no_tasks", "done", "failed"}

\* The file's cells of the coerced columns are blank or well-formed, and
\* some cell is blank.
BlankCells ==
    /\ \A i \in DOMAIN fs.rows : \A c \in CoercedColumns :
          fs.rows[i][c] = "" \/ ~Malformed(c, fs.rows[i][c])
    /\ \E i \in DOMAIN fs.rows : \E c \in CoercedColumns : fs.rows[i][c] = ""

\* C19: a blank Start, Finish or Progress is no coercion failure: the load
\* succeeds, the row stays in the table with a missing value in that field
\* and counts as a record, and the table is handed to the Chart Renderer.
C19_BlankFieldKept ==
    (ReadsPlan /\ LoadSettled /\ BlankCells) =>
        /\ ~InLoader(error)
        /\ ~df.none
        /\ Len(df.rows) = Len(fs.rows)
        /\ \A i \in 1..Len(fs.rows) :
             /\ \A c \in {"Start", "Finish"} :
                  df.rows[i][c] = IF fs.rows[i][c] = "" THEN NaT
                                  ELSE DateVal(DateLiteral[fs.rows[i][c]])
             /\ df.rows[i]["Progress"] =
                    IF fs.rows[i]["Progress"] = "" THEN NaN
                    ELSE FloatVal(NumLiteral[fs.rows[i]["Progress"]])
        /\ ~Printed(NoTasksMessage)
        /\ pc # "print_no_tasks"
        /\ Terminated =>
             /\ Count("create_gantt_chart") = 1
             /\ chartArg = df

C19_Witness ==
    /\ Len(fs.rows) = 1
    /\ fs.rows[1]["Start"] = ""
    /\ fs.rows[1]["Finish"] = ""
    /\ fs.rows[1]["Progress"] = ""
    /\ Count("create_gantt_chart") = 1
    /\ chartArg.rows[1]["Start"] = NaT
    /\ chartArg.rows[1]["Progress"] = NaN

====
